---- MODULE Spec2Model ----
(***************************************************************************)
(* Model of the task manager: the retry decorator (task_utils.py), the     *)
(* task-intake graph (graph.py, task_nodes.py) and the due-date resolver   *)
(* with the task store operations (mcp_server.py), and the chat agent      *)
(* (mcp_client.py, backend.py).                                            *)
(*                                                                         *)
(* Text is modelled as a sequence of characters, so that strip(), lower(),  *)
(* substring search, replace() and the time regular expression are         *)
(* computed character by character as Python computes them.  An ASCII      *)
(* character is a one-character string; a Cyrillic character is written    *)
(* as its code point, "U+0432".                                            *)
(***************************************************************************)
EXTENDS Integers, Sequences, FiniteSets, TLC

VARIABLES
    frames,     \* retry_on_failure: one wrapper activation per caller
    runs,       \* compiled graph: one TaskState and position per run
    nodeState,  \* task_nodes: a TaskState handed directly to a node function
    resolver,   \* parse_due_date: the phrase under resolution and its result
    tasks,      \* mcp_server: rows of the tasks table, by id
    nextId,     \* mcp_server: next AUTOINCREMENT id of the tasks table
    lastCall,   \* mcp_server: the last tool call and what it returned
    agent       \* mcp_client: the TaskManagerAgent and the call in progress on it

vars == <<frames, runs, nodeState, resolver, tasks, nextId, lastCall, agent>>

-----------------------------------------------------------------------------
(* Bounds of the model *)

\* largest attempt budget (max_retries) a decorated function is configured with
MaxRetries == 3

\* largest number of vocabulary pieces concatenated into one due-date phrase
MaxPieces == 2

\* largest number of rows ever inserted into the tasks table
MaxTasks == 2

\* largest number of direct calls of node functions on one TaskState
MaxNodeCalls == 4

\* largest number of initialize, process_message and /chat calls on one agent
MaxAgentCalls == 4

\* largest number of initialize calls one task makes on a shared agent
MaxInitCalls == 2

-----------------------------------------------------------------------------
(* Python values *)

\* Python's None where a text is expected: a sequence that is no text
None == <<"None">>

\* Python's None where an exception or a return value is expected
NoValue == "None"

\* truthiness of an optional text: `if not s` is true for None and for ""
Falsy(s) == s = None \/ s = <<>>

-----------------------------------------------------------------------------
(* Python str operations, on sequences of characters *)

\* characters str.strip() removes
Whitespace == {" ", "\t", "\n"}

UpperCase == <<"A", "B", "C", "D", "E", "F", "G", "H", "I", "J", "K", "L", "M",
               "N", "O", "P", "Q", "R", "S", "T", "U", "V", "W", "X", "Y", "Z",
               "U+0412", "U+0414", "U+0417", "U+041D", "U+0423">>
LowerCase == <<"a", "b", "c", "d", "e", "f", "g", "h", "i", "j", "k", "l", "m",
               "n", "o", "p", "q", "r", "s", "t", "u", "v", "w", "x", "y", "z",
               "U+0432", "U+0434", "U+0437", "U+043D", "U+0443">>

Digits == {"0", "1", "2", "3", "4", "5", "6", "7", "8", "9"}

LowerChar(c) ==
    IF \E i \in 1..Len(UpperCase) : UpperCase[i] = c
    THEN LowerCase[CHOOSE i \in 1..Len(UpperCase) : UpperCase[i] = c]
    ELSE c

\* str.lower()
Lower(s) == [i \in 1..Len(s) |-> LowerChar(s[i])]

\* str.lstrip(), str.rstrip(), str.strip()
RECURSIVE LStrip(_)
LStrip(s) == IF s # <<>> /\ Head(s) \in Whitespace THEN LStrip(Tail(s)) ELSE s

RECURSIVE RStrip(_)
RStrip(s) ==
    IF s # <<>> /\ s[Len(s)] \in Whitespace THEN RStrip(SubSeq(s, 1, Len(s) - 1)) ELSE s

Strip(s) == RStrip(LStrip(s))

\* does w occur in s at position i
OccursAt(s, w, i) == i + Len(w) - 1 <= Len(s) /\ SubSeq(s, i, i + Len(w) - 1) = w

\* `w in s`
Contains(s, w) == \E i \in 1..(Len(s) + 1) : OccursAt(s, w, i)

\* s.replace(w, ""): every non-overlapping occurrence of w, left to right
RECURSIVE Remove(_, _)
Remove(s, w) ==
    IF s = <<>> THEN <<>>
    ELSE IF OccursAt(s, w, 1) THEN Remove(SubSeq(s, Len(w) + 1, Len(s)), w)
    ELSE <<Head(s)>> \o Remove(Tail(s), w)

\* str(x) inside an f-string
Str(x) == IF x = None THEN <<"N", "o", "n", "e">> ELSE x

-----------------------------------------------------------------------------
(* retry_on_failure (task_utils.py; mcp_client_llm.py holds the same code) *)

\* default attempt budget of the decorator
DefaultMaxRetries == 2

\* default delay of the decorator, in seconds
DefaultDelay == 1

\* delays a decorated function may be configured with
Delays == {DefaultDelay, 3}

\* exceptions the wrapped operation may raise, values it may return
Exceptions == {"E1", "E2"}
Values == {"V1", "V2"}

\* a wrapper activation before the wrapper is entered
NewFrame(n, d) ==
    [max_retries |-> n, delay |-> d, pc |-> "idle", attempt |-> 0,
     last_exception |-> NoValue, result |-> NoValue, raised |-> NoValue,
     trace |-> <<>>]

\* `raise last_exception`: raising None is itself a TypeError
RaiseLast(f) ==
    [f EXCEPT !.pc = "raised",
              !.raised = IF f.last_exception = NoValue THEN "TypeError"
                         ELSE f.last_exception]

\* (mutation of RangeHas) the loop has no last iteration
RangeHasEndless(f, k) == TRUE

\* `for attempt in range(max_retries)`: is there an iteration k
RangeHas(f, k) == k < f.max_retries

\* one turn of the for loop: iteration k awaits func, the exhausted loop raises
LoopTurn(f, k) ==
    IF RangeHas(f, k)
    THEN [f EXCEPT !.pc = "try", !.attempt = k,
                   !.trace = Append(f.trace, <<"call", k + 1>>)]
    ELSE RaiseLast(f)

\* (mutation of WillRetry) the wrapper sleeps after the last attempt as well
WillRetryAfterLast(f) == f.attempt < f.max_retries

\* `if attempt < max_retries - 1`: a retry follows this failed attempt
WillRetry(f) == f.attempt < f.max_retries - 1

\* (mutation of SleepLength) a delay that grows with the attempt number
SleepLengthGrowing(f) == f.delay * (f.attempt + 1)

\* the length of the sleep before the retry
SleepLength(f) == f.delay

\* (mutation of RetryEvents) the warning is written once the sleep is over
RetryEventsSleepFirst(f) == << <<"sleep", SleepLength(f)>>, <<"log", f.attempt + 1>> >>

\* what the except clause does before a retry: logger.warning, then asyncio.sleep
RetryEvents(f) == << <<"log", f.attempt + 1>>, <<"sleep", SleepLength(f)>> >>

\* (mutation of Keep) only the first failure is remembered
KeepFirst(f, e) == IF f.last_exception = NoValue THEN e ELSE f.last_exception

\* the exception kept by the except clause
Keep(f, e) == e

\* the except clause of the wrapper, up to its next suspension
OnException(f, e) ==
    LET g == [f EXCEPT !.last_exception = Keep(f, e),
                       !.trace = Append(f.trace, <<"fail", f.attempt + 1, e>>)]
    IN IF WillRetry(g)
       THEN [g EXCEPT !.pc = "sleep", !.trace = g.trace \o RetryEvents(g)]
       ELSE LoopTurn(g, g.attempt + 1)

\* `return await func(...)` when func returns v
OnReturn(f, v) ==
    [f EXCEPT !.pc = "returned", !.result = v,
              !.trace = Append(f.trace, <<"ok", f.attempt + 1, v>>)]

\* asyncio.sleep(delay) is over: the loop goes to its next iteration
OnWake(f) == LoopTurn(f, f.attempt + 1)

\* the wrapper is entered: last_exception = None, then the loop
OnEnter(f) == LoopTurn([f EXCEPT !.last_exception = NoValue], 0)

UnchangedButFrames == UNCHANGED <<runs, nodeState, resolver, tasks, nextId, lastCall, agent>>

WrapperCall(c) ==
    /\ frames[c].pc = "idle"
    /\ frames' = [frames EXCEPT ![c] = OnEnter(frames[c])]
    /\ UnchangedButFrames

FuncReturns(c) ==
    /\ frames[c].pc = "try"
    /\ \E v \in Values : frames' = [frames EXCEPT ![c] = OnReturn(frames[c], v)]
    /\ UnchangedButFrames

\* (mutation of FuncRaises) last_exception is one variable shared by all activations
FuncRaisesShared(c) ==
    /\ frames[c].pc = "try"
    /\ \E e \in Exceptions :
          frames' = [q \in DOMAIN frames |->
                       IF q = c THEN OnException(frames[c], e)
                       ELSE [frames[q] EXCEPT !.last_exception = e]]
    /\ UnchangedButFrames

FuncRaises(c) ==
    /\ frames[c].pc = "try"
    /\ \E e \in Exceptions : frames' = [frames EXCEPT ![c] = OnException(frames[c], e)]
    /\ UnchangedButFrames

SleepDone(c) ==
    /\ frames[c].pc = "sleep"
    /\ frames' = [frames EXCEPT ![c] = OnWake(frames[c])]
    /\ UnchangedButFrames

\* events of a trace, by kind
EventsOf(tr, kind) == {i \in 1..Len(tr) : tr[i][1] = kind}
Calls(f) == Cardinality(EventsOf(f.trace, "call"))
Fails(f) == Cardinality(EventsOf(f.trace, "fail"))
Sleeps(f) == Cardinality(EventsOf(f.trace, "sleep"))
Logs(f) == Cardinality(EventsOf(f.trace, "log"))

-----------------------------------------------------------------------------
(* Properties of retry_on_failure *)

\* the events of attempt number a (1-based) in a trace
FailOf(f, a) == {i \in EventsOf(f.trace, "fail") : f.trace[i][2] = a}
OkOf(f, a) == {i \in EventsOf(f.trace, "ok") : f.trace[i][2] = a}
LogOf(f, a) == {i \in EventsOf(f.trace, "log") : f.trace[i][2] = a}

\* the operation failed on attempts 1..k and succeeded on attempt k+1 with v
FailedThenOk(f, k, v) ==
    /\ \A a \in 1..k : FailOf(f, a) # {}
    /\ \E i \in OkOf(f, k + 1) : f.trace[i][3] = v

\* C1: with budget N >= 1 and k < N, an operation that fails k times and then
\* succeeds makes the wrapper return that success value after exactly k+1 calls
\* and exactly k sleeps, each of the configured delay (no growth).
C1_FailKThenSucceed ==
    \A c \in DOMAIN frames :
        LET f == frames[c] IN
        \A k \in 0..MaxRetries : \A v \in Values :
            (f.max_retries >= 1 /\ k < f.max_retries /\ FailedThenOk(f, k, v)) =>
                /\ f.pc = "returned"
                /\ f.result = v
                /\ f.raised = NoValue
                /\ Calls(f) = k + 1
                /\ Fails(f) = k
                /\ Sleeps(f) = k
                /\ \A i \in EventsOf(f.trace, "sleep") : f.trace[i][2] = f.delay

\* C1 witness: two failures, then a success on the third attempt
C1_Witness ==
    \E c \in DOMAIN frames :
        /\ frames[c].pc = "returned"
        /\ Fails(frames[c]) = 2
        /\ Sleeps(frames[c]) = 2

\* C2: an operation that fails on every attempt is called exactly N times,
\* never more, and the wrapper then raises the failure of the N-th attempt; it
\* does not return and does not swallow the failure.
C2_AlwaysFailRaisesLast ==
    \A c \in DOMAIN frames :
        LET f == frames[c] IN
        /\ Calls(f) <= f.max_retries
        /\ (f.max_retries >= 1 /\ Fails(f) = f.max_retries) =>
              /\ f.pc = "raised"
              /\ Calls(f) = f.max_retries
              /\ f.result = NoValue
              /\ \E i \in FailOf(f, f.max_retries) : f.raised = f.trace[i][3]
        /\ (f.max_retries >= 1 /\ f.pc = "raised") => Fails(f) = f.max_retries

\* C2 witness: three failing attempts, the last failure differing from the first
C2_Witness ==
    \E c \in DOMAIN frames :
        LET f == frames[c] IN
        /\ f.pc = "raised"
        /\ f.max_retries = 3
        /\ \E i \in FailOf(f, 1) : f.trace[i][3] = "E1"
        /\ f.raised = "E2"

\* C3 as stated: every failed attempt is logged, and the log entry of a failed
\* attempt that is retried precedes the retry sleep.
C3_EveryFailureLogged ==
    \A c \in DOMAIN frames :
        LET f == frames[c] IN
        \A i \in EventsOf(f.trace, "fail") :
            \E j \in LogOf(f, f.trace[i][2]) :
                /\ j > i
                /\ \A s \in EventsOf(f.trace, "sleep") : s > i => j < s

\* C3 amended: a failed attempt that is followed by a retry is logged right
\* after it fails and before the retry sleep begins; the failed attempt that
\* exhausts the budget is not logged by the wrapper, its failure is raised.
C3_RetriedFailureLogged ==
    \A c \in DOMAIN frames :
        LET f == frames[c] IN
        \A i \in EventsOf(f.trace, "fail") :
            LET a == f.trace[i][2] IN
            IF a < f.max_retries
            THEN /\ Len(f.trace) >= i + 2
                 /\ f.trace[i + 1] = <<"log", a>>
                 /\ f.trace[i + 2][1] = "sleep"
            ELSE /\ LogOf(f, a) = {}
                 /\ f.pc = "raised"

\* C3 witness: a logged and retried failure, then an unlogged final failure
C3_Witness ==
    \E c \in DOMAIN frames :
        LET f == frames[c] IN
        /\ f.pc = "raised"
        /\ Fails(f) = 2
        /\ Logs(f) = 1
        /\ Sleeps(f) = 1

\* the exception of the last failed attempt in the trace of an activation
LastFailure(f) ==
    IF Fails(f) = 0 THEN NoValue
    ELSE LET last == CHOOSE i \in EventsOf(f.trace, "fail") :
                        \A j \in EventsOf(f.trace, "fail") : j <= i
         IN f.trace[last][3]

\* C26: activations of the wrapper in flight together are independent: each
\* makes at most N attempts of its own operation, its last failure and its
\* result are those of its own attempts, and a step of one activation changes
\* nothing of the other.
C26_ActivationsIndependent ==
    /\ [](\A c \in DOMAIN frames :
            LET f == frames[c] IN
            /\ Calls(f) <= f.max_retries
            /\ Fails(f) <= Calls(f)
            /\ f.last_exception = LastFailure(f)
            /\ f.pc = "returned" =>
                  \E i \in OkOf(f, Calls(f)) : f.trace[i][3] = f.result
            /\ (f.pc = "raised" /\ f.max_retries > 0) =>
                  (Fails(f) = f.max_retries /\ f.raised = LastFailure(f)))
    /\ [][\A c1, c2 \in DOMAIN frames :
            (c1 # c2 /\ frames'[c1] # frames[c1]) => frames'[c2] = frames[c2]]_vars

\* C26 witness: one activation has spent its budget of two on E1 and E2 while
\* the other, with a budget of three, returned at its first attempt in between
C26_Witness ==
    \E c1, c2 \in DOMAIN frames :
        /\ c1 # c2
        /\ frames[c1].max_retries = 2 /\ frames[c1].pc = "raised"
        /\ frames[c1].raised = "E2"
        /\ frames[c2].max_retries = 3 /\ frames[c2].pc = "returned"
        /\ Fails(frames[c2]) = 0
        /\ frames[c2].last_exception = NoValue

\* the activation has been entered and has neither returned nor raised
InFlight(f) == f.pc \in {"try", "sleep"}
Ended(f) == f.pc \in {"returned", "raised"}

\* C31: when every attempt of the operation ends and every sleep ends, an
\* activation of the wrapper ends: it returns or raises after at most N attempts
\* and, for N >= 1, at most N-1 sleeps (none for N = 0); it never goes beyond
\* its budget.
C31_InvocationTerminates ==
    /\ [](LET f == frames["c1"] IN
          /\ Calls(f) <= f.max_retries
          /\ Sleeps(f) <= (IF f.max_retries = 0 THEN 0 ELSE f.max_retries - 1)
          /\ Ended(f) => (f.result # NoValue \/ f.raised # NoValue))
    /\ (frames["c1"].pc # "idle") ~> Ended(frames["c1"])

\* C31 witness: the activation ended by returning at the last attempt of a
\* budget of three, after two sleeps
C31_Witness ==
    LET f == frames["c1"] IN
    /\ f.max_retries = 3
    /\ f.pc = "returned"
    /\ Calls(f) = 3
    /\ Sleeps(f) = 2

\* C32: with budget N >= 1, when every attempt failed the wrapper has slept
\* exactly N-1 times; each sleep follows a failed attempt and is followed by the
\* next attempt, and nothing follows the failure of the last attempt in the
\* trace: the raise comes right after it.
C32_SleepsOnlyBetweenAttempts ==
    \A c \in DOMAIN frames :
        LET f == frames[c]
            tr == f.trace
        IN /\ \A s \in EventsOf(tr, "sleep") :
                /\ s > 2 /\ tr[s - 2][1] = "fail" /\ tr[s - 2][2] < f.max_retries
                /\ s < Len(tr) => tr[s + 1] = <<"call", tr[s - 2][2] + 1>>
                /\ s = Len(tr) => f.pc = "sleep"
           /\ (f.max_retries >= 1 /\ f.pc = "raised") =>
                /\ Fails(f) = f.max_retries
                /\ Sleeps(f) = f.max_retries - 1
                /\ tr[Len(tr)][1] = "fail"
                /\ tr[Len(tr)][2] = f.max_retries
                /\ f.raised = tr[Len(tr)][3]

\* C32 witness: three failed attempts with E1, two sleeps, then the raise
C32_Witness ==
    \E c \in DOMAIN frames :
        LET f == frames[c] IN
        /\ f.max_retries = 3
        /\ f.pc = "raised"
        /\ Sleeps(f) = 2
        /\ \A i \in EventsOf(f.trace, "fail") : f.trace[i][3] = "E1"

\* C33 as stated: whenever the wrapper raises, for every budget including 0,
\* what it raises is a failure that an attempt of the operation produced.
C33_RaisedIsAnAttemptsFailure ==
    \A c \in DOMAIN frames :
        LET f == frames[c] IN
        f.pc = "raised" =>
            \E i \in EventsOf(f.trace, "fail") : f.trace[i][3] = f.raised

-----------------------------------------------------------------------------
(* task_nodes.py: TaskState and the node functions *)

\* a key that the TaskState dict does not hold
Absent == <<"Absent">>

\* the `task` entry of a TaskState: absent, None, or a dict of four fields
TaskEntry(kind, d, p, due, c) ==
    [kind |-> kind, description |-> d, priority |-> p, due_date |-> due, category |-> c]
AbsentTask == TaskEntry("absent", None, None, None, None)
NoneTask == TaskEntry("none", None, None, None, None)
EmptyDict == TaskEntry("dict", None, None, None, None)

\* state.get(key): None when the key is absent
Get(v) == IF v = Absent THEN None ELSE v

\* what the caller of the graph hands in: the description alone
NewTaskState(d) ==
    [description |-> d, priority |-> Absent, due_date |-> Absent, category |-> Absent,
     task |-> AbsentTask, confirmation |-> Absent]

\* descriptions of the model, and texts the completion capability may return
Descriptions == {<<"m", "i", "l", "k">>, <<"t", "o", "m", "o", "r", "r", "o", "w">>}
ModelTexts == {<<" ", "H", "i", "g", "h", "\n">>, <<"n", "u", "l", "l">>, <<"2", "0", "2", "5", "-", "0", "9", "-", "0", "5">>}
ModelErrors == {"Timeout"}

\* results of a node call: the state it returns, or the exception it raises
Returned(st) == [ok |-> TRUE, state |-> st, error |-> "none"]
Raised(st, err) == [ok |-> FALSE, state |-> st, error |-> err]

\* (mutation of priority_write) the priority stage also presets the due date
priority_write_presets_due_date(st, result) ==
    [st EXCEPT !.priority = Lower(Strip(result)), !.due_date = None]

\* priority_node after llm.call returned: state["priority"] = result.strip().lower()
priority_write(st, result) == [st EXCEPT !.priority = Lower(Strip(result))]

\* due_date_node after llm.call returned: state["due_date"] = result.strip()
due_date_write(st, result) == [st EXCEPT !.due_date = Strip(result)]

\* (mutation of category_write) the category stage also empties the description
category_write_clears_description(st, result) ==
    [st EXCEPT !.category = Lower(Strip(result)), !.description = <<>>]

\* the values the prompts of priority_node and category_node ask for
PromptPriorities == {<<"l", "o", "w">>, <<"n", "o", "r", "m", "a", "l">>, <<"h", "i", "g", "h">>}
PromptCategories ==
    {<<"w", "o", "r", "k">>, <<"p", "e", "r", "s", "o", "n", "a", "l">>,
     <<"s", "h", "o", "p", "p", "i", "n", "g">>, <<"h", "e", "a", "l", "t", "h">>,
     <<"o", "t", "h", "e", "r">>}

\* category_node after llm.call returned: state["category"] = result.strip().lower()
category_write(st, result) == [st EXCEPT !.category = Lower(Strip(result))]

\* the write of an enrichment node, by node name
NodeWrite(node, st, result) ==
    CASE node = "priority" -> priority_write(st, result)
      [] node = "due_date" -> due_date_write(st, result)
      [] node = "category" -> category_write(st, result)

\* assemble_task_node(state)
assemble_task_node(st) ==
    [st EXCEPT !.task = TaskEntry("dict", st.description, Get(st.priority),
                                  Get(st.due_date), Get(st.category))]

\* the literal parts of the confirmation f-string
ConfirmationLabels == <<"[created]", "[description]", "[priority]", "[due]", "[category]">>

\* the f-string of confirmation_node over the dict t
Render(t) ==
    <<ConfirmationLabels[1], ConfirmationLabels[2]>> \o Str(t.description)
    \o <<ConfirmationLabels[3]>> \o Str(t.priority)
    \o <<ConfirmationLabels[4]>> \o Str(t.due_date)
    \o <<ConfirmationLabels[5]>> \o Str(t.category)

\* confirmation_node(state): state.get("task", {}) is None when the key holds None
confirmation_node(st) ==
    LET t == IF st.task.kind = "absent" THEN EmptyDict ELSE st.task
    IN IF t.kind = "none"
       THEN Raised(st, "AttributeError")
       ELSE Returned([st EXCEPT !.confirmation = Render(t)])

\* number of positional parameters of assemble_task_node and confirmation_node
AssembleParams == 1
ConfirmationParams == 1

\* a call of assemble_task_node with the positional arguments args
CallAssemble(args) ==
    IF Len(args) = AssembleParams
    THEN Returned(assemble_task_node(args[1]))
    ELSE Raised(args[1], "TypeError")

\* a call of confirmation_node with the positional arguments args
CallConfirmation(args) ==
    IF Len(args) = ConfirmationParams
    THEN confirmation_node(args[1])
    ELSE Raised(args[1], "TypeError")

-----------------------------------------------------------------------------
(* graph.py: build_graph, and a run of the compiled graph *)

GraphNodes == <<"priority", "due_date", "category", "assemble", "confirmation">>
EntryPoint == "priority"

\* (mutation of Edges) the category stage is wired before the due-date stage
EdgesSwapped ==
    {<<"priority", "category">>, <<"category", "due_date">>,
     <<"due_date", "assemble">>, <<"assemble", "confirmation">>}

\* graph.add_edge(...)
Edges ==
    {<<"priority", "due_date">>, <<"due_date", "category">>,
     <<"category", "assemble">>, <<"assemble", "confirmation">>}

\* the node a run goes to after node n; a node without an edge ends the run
Successor(n) ==
    IF \E e \in Edges : e[1] = n THEN (CHOOSE e \in Edges : e[1] = n)[2] ELSE "END"

\* the nodes that await llm.call (run_priority, run_due_date, run_category)
CompletionNodes == {"priority", "due_date", "category"}

\* the second argument build_graph hands to the node functions
Tools == <<"tools">>

\* the callable registered for a node that makes no completion call
RegisteredCall(node, st) ==
    CASE node = "assemble" -> CallAssemble(<<st, Tools>>)
      [] node = "confirmation" -> CallConfirmation(<<st>>)

\* (mutation of LLMCallFrame) the completion is called with no retry
LLMCallFrameSingleAttempt == NewFrame(1, DefaultDelay)

\* LLMWrapper.call: the completion capability behind the Resilience Wrapper
LLMCallFrame == NewFrame(DefaultMaxRetries, DefaultDelay)

NewRun(d) ==
    [state |-> NewTaskState(d), pc |-> EntryPoint, visited |-> <<>>,
     llm |-> LLMCallFrame, failedAt |-> "none", error |-> "none", attempts |-> <<>>,
     responses |-> <<>>]

\* (mutation of Abort) the failure is swallowed and the run goes on
AbortContinue(run, err) ==
    [run EXCEPT !.pc = Successor(run.pc), !.failedAt = run.pc, !.error = err,
                !.llm = LLMCallFrame]

\* an exception leaves the node: the run ends with it, the state is dropped
Abort(run, err) ==
    [run EXCEPT !.pc = "aborted", !.failedAt = run.pc, !.error = err]

\* (mutation of Advance) a node that returned after a retry loses its write
AdvanceLosesWriteAfterRetry(run, st) ==
    [run EXCEPT !.state = IF Calls(run.llm) > 1 THEN run.state ELSE st,
                !.pc = Successor(run.pc), !.llm = LLMCallFrame,
                !.attempts = Append(run.attempts, Calls(run.llm))]

\* a node returned: the run follows the node's edge
Advance(run, st) ==
    [run EXCEPT !.state = st, !.pc = Successor(run.pc), !.llm = LLMCallFrame,
                !.attempts = Append(run.attempts, Calls(run.llm))]

UnchangedButRuns == UNCHANGED <<frames, nodeState, resolver, tasks, nextId, lastCall, agent>>

\* the graph invokes a completion node, which awaits llm.call(prompt)
NodeStart(r) ==
    /\ runs[r].pc \in CompletionNodes
    /\ runs[r].llm.pc = "idle"
    /\ runs' = [runs EXCEPT ![r].llm = OnEnter(runs[r].llm),
                            ![r].visited = Append(runs[r].visited, runs[r].pc)]
    /\ UnchangedButRuns

\* the completion returns a text: the node writes its field and returns
CompletionReturns(r) ==
    /\ runs[r].pc \in CompletionNodes
    /\ runs[r].llm.pc = "try"
    /\ \E t \in ModelTexts :
          runs' = [runs EXCEPT ![r] =
                     [Advance(runs[r], NodeWrite(runs[r].pc, runs[r].state, t))
                        EXCEPT !.responses = Append(@, t)]]
    /\ UnchangedButRuns

\* (mutation of CompletionRaises) one wrapper state is shared by the runs: the
\* failure is counted in every run that is awaiting a completion
CompletionRaisesShared(r) ==
    /\ runs[r].pc \in CompletionNodes
    /\ runs[r].llm.pc = "try"
    /\ \E e \in ModelErrors :
          runs' = [q \in DOMAIN runs |->
                     IF runs[q].pc \in CompletionNodes /\ runs[q].llm.pc = "try"
                     THEN LET g == OnException(runs[q].llm, e)
                          IN IF g.pc = "raised"
                             THEN Abort([runs[q] EXCEPT !.llm = g], g.raised)
                             ELSE [runs[q] EXCEPT !.llm = g]
                     ELSE runs[q]]
    /\ UnchangedButRuns

\* the completion fails: the wrapper retries, or its budget is spent and it raises
CompletionRaises(r) ==
    /\ runs[r].pc \in CompletionNodes
    /\ runs[r].llm.pc = "try"
    /\ \E e \in ModelErrors :
          LET g == OnException(runs[r].llm, e)
          IN runs' = [runs EXCEPT ![r] =
                        IF g.pc = "raised"
                        THEN Abort([runs[r] EXCEPT !.llm = g], g.raised)
                        ELSE [runs[r] EXCEPT !.llm = g]]
    /\ UnchangedButRuns

\* the wrapper's sleep is over: the completion is attempted again
CompletionRetry(r) ==
    /\ runs[r].pc \in CompletionNodes
    /\ runs[r].llm.pc = "sleep"
    /\ runs' = [runs EXCEPT ![r].llm = OnWake(runs[r].llm)]
    /\ UnchangedButRuns

\* the graph invokes the callable registered for assemble or confirmation
RegisteredNode(r) ==
    /\ runs[r].pc \in {"assemble", "confirmation"}
    /\ LET started == [runs[r] EXCEPT !.visited = Append(runs[r].visited, runs[r].pc)]
           res == RegisteredCall(runs[r].pc, runs[r].state)
       IN runs' = [runs EXCEPT ![r] =
                     IF res.ok THEN Advance(started, res.state)
                     ELSE Abort(started, res.error)]
    /\ UnchangedButRuns

-----------------------------------------------------------------------------
(* task_nodes.py: the node functions called directly on a TaskState *)

\* a TaskState whose optional keys hold None
NoneTaskState(d) ==
    [description |-> d, priority |-> None, due_date |-> None, category |-> None,
     task |-> NoneTask, confirmation |-> None]

\* texts the completion double returns to a node
NodeTexts == {<<" ", "H", "i", "g", "h", "\n">>, <<"n", "u", "l", "l">>}

UnchangedButNodeState == UNCHANGED <<frames, runs, resolver, tasks, nextId, lastCall, agent>>

\* the outcome of one call of a node function on the state
AfterCall(fn, res) ==
    [phase |-> "ready", state |-> res.state, calls |-> nodeState.calls + 1,
     last |-> fn, raised |-> res.error]

\* priority_node, due_date_node or category_node with a completion that returns
EnrichmentNodeCall ==
    /\ nodeState.calls < MaxNodeCalls
    /\ \E node \in CompletionNodes, t \in NodeTexts :
          nodeState' = AfterCall(node, Returned(NodeWrite(node, nodeState.state, t)))
    /\ UnchangedButNodeState

\* priority_node, due_date_node or category_node with a completion that raises
EnrichmentNodeFails ==
    /\ nodeState.calls < MaxNodeCalls
    /\ \E node \in CompletionNodes, e \in ModelErrors :
          nodeState' = AfterCall(node, Raised(nodeState.state, e))
    /\ UnchangedButNodeState

\* assemble_task_node(state)
AssembleNodeCall ==
    /\ nodeState.calls < MaxNodeCalls
    /\ nodeState' = AfterCall("assemble", CallAssemble(<<nodeState.state>>))
    /\ UnchangedButNodeState

\* confirmation_node(state)
ConfirmationNodeCall ==
    /\ nodeState.calls < MaxNodeCalls
    /\ nodeState' = AfterCall("confirmation", CallConfirmation(<<nodeState.state>>))
    /\ UnchangedButNodeState

-----------------------------------------------------------------------------
(* mcp_client.py: TaskManagerAgent; backend.py: chat_endpoint *)

\* the tool lists MultiServerMCPClient.get_tools may return
ToolSets == {<<>>, <<"add_task", "edit_task">>}

\* outcomes of AgentConfig.validate(): it returns, or raises ValueError
ConfigStates == {"valid", "missing_key"}

\* final messages of the react agent
FinalAnswers == {<<"T", "a", "s", "k", " ", "a", "d", "d", "e", "d">>}

\* the strings the agent and the endpoint answer with; a message is a sequence
\* of its parts
NotReady == <<"[agent not ready, reinitialize]">>
NotReadyChat == <<"[agent not ready]">>
ErrorMsg(e) == <<"[processing error] ", e>>

\* what the last finished call was and what it gave back
NoLast ==
    [op |-> "none", ret |-> FALSE, config |-> "none", connects |-> 0,
     response |-> None, raised |-> NoValue, invokes |-> 0, fails |-> 0]

\* TaskManagerAgent.__init__
NewAgent ==
    [initialized |-> FALSE, agent |-> NoValue, tools |-> <<>>, pc |-> "idle",
     init |-> NewFrame(DefaultMaxRetries, DefaultDelay),
     msg |-> NewFrame(DefaultMaxRetries, DefaultDelay),
     via |-> "none", calls |-> 0, got |-> <<>>, invokes |-> 0, fails |-> 0,
     invoked |-> 0, validationFailed |-> FALSE, last |-> NoLast]

\* (mutation of is_ready) the readiness test always passes
is_ready_unchecked(a) == TRUE

\* the is_ready property
is_ready(a) == a.initialized /\ a.agent # NoValue

\* initialize returns ret
InitializeReturns(a, ret, cfg) ==
    [a EXCEPT !.pc = "idle",
              !.last = [NoLast EXCEPT !.op = "initialize", !.ret = ret, !.config = cfg,
                                      !.connects = Calls(a.init)]]

\* (mutation of FinishInitialize) a failed creation still sets _initialized
FinishInitializeLatches(a, built) ==
    IF built
    THEN InitializeReturns([a EXCEPT !.agent = "react_agent", !.initialized = TRUE],
                           TRUE, "valid")
    ELSE InitializeReturns([a EXCEPT !.initialized = TRUE], FALSE, "valid")

\* initialize after _init_mcp_client: the model and the react agent are created
\* (built), or one of the constructors raises and the except clause returns False
FinishInitialize(a, built) ==
    IF built
    THEN InitializeReturns([a EXCEPT !.agent = "react_agent", !.initialized = TRUE],
                           TRUE, "valid")
    ELSE InitializeReturns(a, FALSE, "valid")

\* initialize(), up to its first suspension
initialize(a, cfg) ==
    IF a.initialized THEN InitializeReturns(a, TRUE, "unchecked")
    ELSE LET b == [a EXCEPT !.got = <<>>,
                            !.init = NewFrame(DefaultMaxRetries, DefaultDelay)]
         IN IF cfg # "valid"
            THEN InitializeReturns([b EXCEPT !.validationFailed = TRUE], FALSE, cfg)
            ELSE [b EXCEPT !.pc = "connecting", !.init = OnEnter(b.init)]

\* (mutation of NoTools) an empty tool list is accepted
NoToolsAccepted(tools) == FALSE

\* `if not self.tools`: _init_mcp_client raises
NoTools(tools) == tools = <<>>

\* the wrapper of _init_mcp_client after an attempt, and initialize after it
AfterConnect(a, g, built) ==
    LET b == [a EXCEPT !.init = g] IN
    IF g.pc = "returned" THEN FinishInitialize(b, built)
    ELSE IF g.pc = "raised" THEN InitializeReturns(b, FALSE, "valid")
    ELSE b

\* what an attempt of the body of process_message ends with
BodyReturns(v) == [kind |-> "return", value |-> v]
BodyRaises(e) == [kind |-> "raise", value |-> e]

\* (mutation of ExceptClause) the exception leaves process_message
ExceptClauseReraises(e) == BodyRaises(e)

\* the except clause of process_message: the error text is returned
ExceptClause(e) == BodyReturns(ErrorMsg(e))

\* the wrapper of process_message after an attempt of the body
Completes(a, outcome) ==
    LET g == IF outcome.kind = "raise" THEN OnException(a.msg, outcome.value)
             ELSE OnReturn(a.msg, outcome.value)
    IN IF g.pc = "sleep" THEN [a EXCEPT !.msg = g, !.pc = "msg_sleep"]
       ELSE [a EXCEPT !.msg = g, !.pc = "idle",
                      !.last = [NoLast EXCEPT !.op = a.via,
                                              !.response = IF g.pc = "returned"
                                                           THEN g.result ELSE None,
                                              !.raised = g.raised,
                                              !.invokes = a.invokes,
                                              !.fails = a.fails]]

\* the body of process_message, up to `await self.agent.ainvoke`
EnterBody(a) ==
    IF ~is_ready(a) THEN Completes(a, BodyReturns(NotReady))
    ELSE IF a.agent = NoValue THEN Completes(a, ExceptClause("AttributeError"))
    ELSE [a EXCEPT !.pc = "invoking"]

\* process_message(user_input), called directly
process_message(a) ==
    EnterBody([a EXCEPT !.msg = OnEnter(NewFrame(DefaultMaxRetries, DefaultDelay)),
                        !.invokes = 0, !.fails = 0])

\* chat_endpoint(request)
chat_endpoint(a) ==
    IF ~is_ready(a)
    THEN [a EXCEPT !.last = [NoLast EXCEPT !.op = "chat_endpoint",
                                           !.response = NotReadyChat]]
    ELSE process_message(a)

\* get_tools returned the list t to _init_mcp_client: self.tools = t, then the
\* emptiness test, the wrapper and the rest of initialize
ToolsReturned(a0, t, built) ==
    LET a == [a0 EXCEPT !.tools = t, !.got = Append(@, t)]
        g == IF NoTools(t) THEN OnException(a.init, "NoTools")
             ELSE OnReturn(a.init, NoValue)
    IN AfterConnect(a, g, built)

\* get_tools raised e inside _init_mcp_client
ToolsRaised(a0, e) ==
    LET a == [a0 EXCEPT !.got = Append(@, <<"raised">>)]
    IN AfterConnect(a, OnException(a.init, e), FALSE)

\* the sleep of the wrapper of _init_mcp_client is over
ConnectAgain(a) == [a EXCEPT !.init = OnWake(a.init)]

UnchangedButAgent ==
    UNCHANGED <<frames, runs, nodeState, resolver, tasks, nextId, lastCall>>

\* startup_event, or any caller: agent.initialize()
Initialize ==
    /\ agent.pc = "idle"
    /\ agent.calls < MaxAgentCalls
    /\ \E cfg \in ConfigStates :
          agent' = initialize([agent EXCEPT !.calls = @ + 1], cfg)
    /\ UnchangedButAgent

\* get_tools returns a tool list to _init_mcp_client
GetToolsReturns ==
    /\ agent.pc = "connecting"
    /\ agent.init.pc = "try"
    /\ \E t \in ToolSets, built \in BOOLEAN :
          agent' = ToolsReturned(agent, t, built)
    /\ UnchangedButAgent

\* get_tools raises
GetToolsRaises ==
    /\ agent.pc = "connecting"
    /\ agent.init.pc = "try"
    /\ \E e \in ModelErrors : agent' = ToolsRaised(agent, e)
    /\ UnchangedButAgent

\* asyncio.sleep of a retry wrapper is over: the decorated method is called again
RetrySleepOver ==
    /\ \/ /\ agent.pc = "connecting"
          /\ agent.init.pc = "sleep"
          /\ agent' = ConnectAgain(agent)
       \/ /\ agent.pc = "msg_sleep"
          /\ agent' = EnterBody([agent EXCEPT !.msg = OnWake(agent.msg)])
    /\ UnchangedButAgent

\* a user message arrives, at process_message or at POST /chat
Message ==
    /\ agent.pc = "idle"
    /\ agent.calls < MaxAgentCalls
    /\ \E via \in {"process_message", "chat_endpoint"} :
          LET a == [agent EXCEPT !.calls = @ + 1, !.via = via]
          IN agent' = IF via = "chat_endpoint" THEN chat_endpoint(a)
                      ELSE process_message(a)
    /\ UnchangedButAgent

\* ainvoke returns: the last message's content is the answer, or the response
\* has no such message and indexing it raises inside the try block
InvokeReturns ==
    /\ agent.pc = "invoking"
    /\ \E answer \in FinalAnswers \cup {None} :
          LET a == [agent EXCEPT !.invokes = @ + 1, !.invoked = @ + 1,
                                 !.fails = IF answer = None THEN @ + 1 ELSE @]
          IN agent' = Completes(a, IF answer = None THEN ExceptClause("KeyError")
                                   ELSE BodyReturns(answer))
    /\ UnchangedButAgent

\* ainvoke raises
InvokeRaises ==
    /\ agent.pc = "invoking"
    /\ \E e \in ModelErrors :
          LET a == [agent EXCEPT !.invokes = @ + 1, !.invoked = @ + 1, !.fails = @ + 1]
          IN agent' = Completes(a, ExceptClause(e))
    /\ UnchangedButAgent

-----------------------------------------------------------------------------
(* mcp_client.py: initialize called by two tasks on one TaskManagerAgent *)

\* the tasks that call initialize
Callers == {"i1", "i2"}

\* one agent object and, per calling task, the locals of its initialize call;
\* created counts the react agents made, lateConnects the get_tools calls that
\* ended when _initialized was already set
NewAgentPair ==
    [pc |-> "pair",
     self |-> [initialized |-> FALSE, agent |-> NoValue, tools |-> <<>>],
     callers |-> [k \in Callers |-> NewAgent],
     created |-> 0, lateConnects |-> 0]

\* the agent as the call of task k sees it: its own locals, the shared attributes
CallerView(k) ==
    [agent.callers[k] EXCEPT !.initialized = agent.self.initialized,
                             !.agent = agent.self.agent,
                             !.tools = agent.self.tools]

\* the agent after a step of task k that left its view as b
AfterCallerStep(k, b) ==
    LET v == CallerView(k) IN
    [agent EXCEPT
        !.self = [initialized |-> b.initialized, agent |-> b.agent, tools |-> b.tools],
        !.callers[k] = b,
        !.created = IF v.pc = "connecting" /\ b.pc = "idle" /\ b.last.ret
                    THEN @ + 1 ELSE @,
        !.lateConnects = IF v.pc = "connecting" /\ v.init.pc = "try" /\ v.initialized
                         THEN @ + 1 ELSE @]

\* task k calls agent.initialize()
CallerInitialize(k) ==
    /\ agent.pc = "pair"
    /\ CallerView(k).pc = "idle"
    /\ CallerView(k).calls < MaxInitCalls
    /\ \E cfg \in ConfigStates :
          agent' = AfterCallerStep(k, initialize([CallerView(k) EXCEPT !.calls = @ + 1], cfg))
    /\ UnchangedButAgent

\* get_tools returns to the call of task k
CallerGetToolsReturns(k) ==
    /\ agent.pc = "pair"
    /\ CallerView(k).pc = "connecting"
    /\ CallerView(k).init.pc = "try"
    /\ \E t \in ToolSets, built \in BOOLEAN :
          agent' = AfterCallerStep(k, ToolsReturned(CallerView(k), t, built))
    /\ UnchangedButAgent

\* get_tools raises in the call of task k
CallerGetToolsRaises(k) ==
    /\ agent.pc = "pair"
    /\ CallerView(k).pc = "connecting"
    /\ CallerView(k).init.pc = "try"
    /\ \E e \in ModelErrors :
          agent' = AfterCallerStep(k, ToolsRaised(CallerView(k), e))
    /\ UnchangedButAgent

\* the retry sleep in the call of task k is over
CallerSleepOver(k) ==
    /\ agent.pc = "pair"
    /\ CallerView(k).pc = "connecting"
    /\ CallerView(k).init.pc = "sleep"
    /\ agent' = AfterCallerStep(k, ConnectAgain(CallerView(k)))
    /\ UnchangedButAgent

-----------------------------------------------------------------------------
(* Properties of the node functions *)

\* the keys of a TaskState, and the key each node function writes
StateKeys == {"description", "priority", "due_date", "category", "task", "confirmation"}
KeyOf(node) ==
    CASE node = "priority" -> "priority"
      [] node = "due_date" -> "due_date"
      [] node = "category" -> "category"
      [] node = "assemble" -> "task"
      [] node = "confirmation" -> "confirmation"

\* C24: a call of a node function changes the one key of the state that is the
\* node's own and no other (none at all when it raises); the task that
\* assemble_task_node writes is a dict of exactly description, priority,
\* due_date and category, taken from the state.
C24_NodeWritesOwnKeyOnly ==
    [][nodeState'.calls = nodeState.calls + 1 =>
          LET node == nodeState'.last
              before == nodeState.state
              after == nodeState'.state
          IN /\ \A k \in StateKeys \ {KeyOf(node)} : after[k] = before[k]
             /\ nodeState'.raised # "none" => after = before
             /\ nodeState'.raised = "none" =>
                   IF node = "assemble" THEN after.task.kind = "dict"
                   ELSE after[KeyOf(node)] \notin {Absent, None}
             /\ (node = "assemble" /\ nodeState'.raised = "none") =>
                   /\ after.task.kind = "dict"
                   /\ DOMAIN after.task =
                         {"kind", "description", "priority", "due_date", "category"}
                   /\ after.task.description = before.description
                   /\ after.task.priority = Get(before.priority)
                   /\ after.task.due_date = Get(before.due_date)
                   /\ after.task.category = Get(before.category)]_vars

\* C24 witness: assemble_task_node has written the task from a state whose
\* priority was set, and the confirmation is still untouched
C24_Witness ==
    /\ nodeState.phase = "ready"
    /\ nodeState.last = "assemble"
    /\ nodeState.state.task.kind = "dict"
    /\ nodeState.state.task.priority = <<"h", "i", "g", "h">>
    /\ nodeState.state.confirmation \in {Absent, None}

-----------------------------------------------------------------------------
(* Properties of a run of the graph *)

\* the order of the stages the pipeline is specified to have
PipelineOrder == <<"priority", "due_date", "category", "assemble", "confirmation">>

\* is the field a stage writes populated in the state
Populated(st, node) ==
    CASE node = "priority" -> st.priority # Absent
      [] node = "due_date" -> st.due_date # Absent
      [] node = "category" -> st.category # Absent
      [] node = "assemble" -> st.task.kind # "absent"
      [] node = "confirmation" -> st.confirmation # Absent

\* the stages of a run that have started and returned
CompletedStages(run) ==
    {run.visited[i] : i \in 1..Len(run.visited)} \ {run.pc, run.failedAt}

\* C4: the stages of a run start in the order priority, due_date, category,
\* assemble, confirm, from priority, none skipped, repeated or reordered, and at
\* every point the populated fields are exactly those of the completed stages.
C4_StagesInOrder ==
    \A r \in DOMAIN runs :
        LET run == runs[r] IN
        /\ Len(run.visited) <= Len(PipelineOrder)
        /\ run.visited = SubSeq(PipelineOrder, 1, Len(run.visited))
        /\ run.pc \in CompletionNodes /\ run.llm.pc = "idle" =>
              run.pc = PipelineOrder[Len(run.visited) + 1]
        /\ \A i \in 1..Len(PipelineOrder) :
              Populated(run.state, PipelineOrder[i]) <=>
                  PipelineOrder[i] \in CompletedStages(run)

\* C4 witness: three stages have written their fields and the fourth has started
C4_Witness ==
    \E r \in DOMAIN runs :
        /\ runs[r].visited = <<"priority", "due_date", "category", "assemble">>
        /\ CompletedStages(runs[r]) = {"priority", "due_date", "category"}
        /\ Populated(runs[r].state, "category")

\* C5 as stated: a run whose three completion calls succeeded goes on through
\* assemble to confirm and ends with the assembled task and the confirmation
\* message populated; no transition fails after a successful stage.
C5_SuccessReachesConfirm ==
    \A r \in DOMAIN runs :
        LET run == runs[r] IN
        /\ {"priority", "due_date", "category"} \subseteq CompletedStages(run) =>
              run.pc # "aborted"
        /\ run.pc = "END" =>
              Populated(run.state, "assemble") /\ Populated(run.state, "confirmation")

\* a run that a failed stage has ended
Aborted(run) == run.failedAt # "none"

\* C6: when a stage of a run fails the run aborts at that stage: no later stage
\* executes, the assembled task and the confirmation message are not produced
\* for the run, and the run is not resumed from its partial state.
C6_FailureAborts ==
    /\ [](\A r \in DOMAIN runs :
            LET run == runs[r] IN
            Aborted(run) =>
                /\ run.pc = "aborted"
                /\ run.visited[Len(run.visited)] = run.failedAt
                /\ ~Populated(run.state, "assemble")
                /\ ~Populated(run.state, "confirmation"))
    /\ [][\A r \in DOMAIN runs : Aborted(runs[r]) => runs'[r] = runs[r]]_vars

\* C6 witness: the due-date stage spent the retry budget after priority was written
C6_Witness ==
    \E r \in DOMAIN runs :
        /\ runs[r].pc = "aborted"
        /\ runs[r].failedAt = "due_date"
        /\ Fails(runs[r].llm) = DefaultMaxRetries
        /\ Populated(runs[r].state, "priority")


\* C15: the completion call of each enrichment stage goes through the retry
\* wrapper: a stage whose completion failed fewer times than the attempt budget
\* and then succeeded has written its field and the run goes on; a run is ended
\* by a stage's completion only when the budget is spent, with the last failure,
\* and the stage's field is then left unwritten (no fallback value).
C15_StageCompletionRetried ==
    \A r \in DOMAIN runs :
        LET run == runs[r] IN
        /\ \A i \in 1..Len(run.attempts) :
              run.visited[i] \in CompletionNodes =>
                  /\ run.attempts[i] \in 1..DefaultMaxRetries
                  /\ Populated(run.state, run.visited[i])
        /\ (run.pc \in CompletionNodes /\ Fails(run.llm) < DefaultMaxRetries) =>
              ~Aborted(run)
        /\ (Aborted(run) /\ run.failedAt \in CompletionNodes) =>
              /\ Calls(run.llm) = DefaultMaxRetries
              /\ Fails(run.llm) = DefaultMaxRetries
              /\ run.error = run.llm.last_exception
              /\ ~Populated(run.state, run.failedAt)

\* C15 witness: the priority completion failed once and then returned; the run
\* is in its due-date stage with the priority written
C15_Witness ==
    \E r \in DOMAIN runs :
        /\ runs[r].attempts = <<DefaultMaxRetries>>
        /\ runs[r].pc = "due_date"
        /\ ~Aborted(runs[r])
        /\ Populated(runs[r].state, "priority")

\* a run that has ended, normally or with an exception
Finished(run) == run.pc \in {"END", "aborted"}

\* two runs were given the same description and the same completion texts
SameInputs(a, b) ==
    a.state.description = b.state.description /\ a.responses = b.responses

RECURSIVE StateFrom(_, _)
StateFrom(d, texts) ==
    IF texts = <<>> THEN NewTaskState(d)
    ELSE NodeWrite(PipelineOrder[Len(texts)],
                   StateFrom(d, SubSeq(texts, 1, Len(texts) - 1)),
                   texts[Len(texts)])

\* a run that is waiting in llm.call
Suspended(run) == run.pc \in CompletionNodes /\ run.llm.pc \in {"try", "sleep"}

\* a step of run r
RunStep(r) ==
    \/ NodeStart(r)
    \/ CompletionReturns(r)
    \/ CompletionRaises(r)
    \/ CompletionRetry(r)
    \/ RegisteredNode(r)

\* C22: runs in flight together share no state: the state of a run is the one
\* its own description and its own completion texts lead to, a run that waits
\* in a completion call leaves every unfinished run able to step, and a step of
\* one run changes nothing of another.
C22_RunsIndependent ==
    /\ [](\A r1, r2 \in DOMAIN runs :
            /\ runs[r1].state = StateFrom(runs[r1].state.description, runs[r1].responses)
            /\ (r1 # r2 /\ Suspended(runs[r1]) /\ ~Finished(runs[r2])) =>
                  ENABLED RunStep(r2))
    /\ [][\A r1, r2 \in DOMAIN runs :
            (r1 # r2 /\ runs'[r1] # runs[r1]) => runs'[r2] = runs[r2]]_vars

\* C22 witness: one run still waits for its first completion while the other,
\* with another description, has gone through its three completion stages
C22_Witness ==
    \E r1, r2 \in DOMAIN runs :
        /\ runs[r1].state.description # runs[r2].state.description
        /\ runs[r1].pc = "priority" /\ runs[r1].llm.pc = "try"
        /\ Len(runs[r2].responses) = 3
        /\ Populated(runs[r2].state, "category")
        /\ ~Populated(runs[r1].state, "priority")

\* how often a node was started in a run
Starts(run, node) == Cardinality({i \in 1..Len(run.visited) : run.visited[i] = node})

\* C23: in a run no stage changes the description, and the assembled task and
\* the confirmation, once written, are not written again or cleared: the nodes
\* that write them start at most once.
C23_DescriptionKeptWriteOnce ==
    /\ [](\A r \in DOMAIN runs :
            /\ Starts(runs[r], "assemble") <= 1
            /\ Starts(runs[r], "confirmation") <= 1)
    /\ [][\A r \in DOMAIN runs :
            /\ runs'[r].state.description = runs[r].state.description
            /\ Populated(runs[r].state, "assemble") =>
                  runs'[r].state.task = runs[r].state.task
            /\ Populated(runs[r].state, "confirmation") =>
                  runs'[r].state.confirmation = runs[r].state.confirmation]_vars

\* C23 witness: the three completion stages and assemble have run on "tomorrow"
C23_Witness ==
    \E r \in DOMAIN runs :
        /\ Len(runs[r].visited) = 4
        /\ Finished(runs[r])
        /\ runs[r].state.description = <<"t", "o", "m", "o", "r", "r", "o", "w">>
        /\ Starts(runs[r], "assemble") = 1

\* C25 as stated: once the priority stage has completed the priority is one of
\* low, normal, high, and once the category stage has completed the category is
\* one of the categories of the closed set, whatever text the completion returned.
C25_ValuesInClosedSets ==
    \A r \in DOMAIN runs :
        /\ Populated(runs[r].state, "priority") =>
              runs[r].state.priority \in PromptPriorities
        /\ Populated(runs[r].state, "category") =>
              runs[r].state.category \in PromptCategories

-----------------------------------------------------------------------------
(* mcp_server.py: parse_due_date *)

\* the time_overrides dict, in its insertion order
TimeOverrides ==
    <<[word |-> <<"U+0443", "U+0442", "U+0440", "U+043E", "U+043C">>, hour |-> 9, minute |-> 0],
      [word |-> <<"U+0434", "U+043D", "U+0451", "U+043C">>, hour |-> 13, minute |-> 0],
      [word |-> <<"U+0434", "U+043D", "U+0435", "U+043C">>, hour |-> 13, minute |-> 0],
      [word |-> <<"U+0432", "U+0435", "U+0447", "U+0435", "U+0440", "U+043E", "U+043C">>, hour |-> 18, minute |-> 0],
      [word |-> <<"U+043D", "U+043E", "U+0447", "U+044C", "U+044E">>, hour |-> 23, minute |-> 0],
      [word |-> <<"m", "o", "r", "n", "i", "n", "g">>, hour |-> 9, minute |-> 0],
      [word |-> <<"a", "f", "t", "e", "r", "n", "o", "o", "n">>, hour |-> 13, minute |-> 0],
      [word |-> <<"e", "v", "e", "n", "i", "n", "g">>, hour |-> 18, minute |-> 0],
      [word |-> <<"n", "i", "g", "h", "t">>, hour |-> 23, minute |-> 0]>>

\* characters the regular expression's \b and \w treat as word characters
CyrillicLetters ==
    {"U+0430", "U+0432", "U+0434", "U+0435", "U+0437", "U+043C", "U+043D", "U+043E",
     "U+0440", "U+0442", "U+0443", "U+0447", "U+044C", "U+044E", "U+0451"}
IsWordChar(c) ==
    \/ c \in Digits
    \/ c = "_"
    \/ c \in CyrillicLetters
    \/ \E i \in 1..Len(UpperCase) : c = UpperCase[i] \/ c = LowerCase[i]

\* \b at the gap before position i of s
BoundaryBefore(s, i) ==
    LET left == i > 1 /\ IsWordChar(s[i - 1])
        right == i <= Len(s) /\ IsWordChar(s[i])
    IN left # right

\* does \b\d{1,2}[:.]\d{2}\b match s from position i, with nd leading digits
TimePatternAt(s, i, nd) ==
    /\ i + nd + 2 <= Len(s)
    /\ BoundaryBefore(s, i)
    /\ \A j \in i..(i + nd - 1) : s[j] \in Digits
    /\ s[i + nd] \in {":", "."}
    /\ s[i + nd + 1] \in Digits
    /\ s[i + nd + 2] \in Digits
    /\ BoundaryBefore(s, i + nd + 3)

\* (mutation of TimePatternSearch) any digit in the phrase counts as a time
TimePatternSearchAnyDigit(s) ==
    \E i \in 1..Len(s) : s[i] \in Digits

\* re.search(time_pattern, s)
TimePatternSearch(s) ==
    \E i \in 1..Len(s) : \E nd \in {1, 2} : TimePatternAt(s, i, nd)

\* (mutation of FirstOverride) the word that occurs first in the text wins
FirstOverrideByPosition(text) ==
    IF \E i \in 1..Len(TimeOverrides) : Contains(text, TimeOverrides[i].word)
    THEN CHOOSE i \in 1..Len(TimeOverrides) :
            \E p \in 1..Len(text) :
                /\ OccursAt(text, TimeOverrides[i].word, p)
                /\ \A j \in 1..Len(TimeOverrides) : \A q \in 1..(p - 1) :
                       ~OccursAt(text, TimeOverrides[j].word, q)
                /\ \A j \in 1..(i - 1) : ~OccursAt(text, TimeOverrides[j].word, p)
    ELSE 0

\* the first entry of time_overrides, in dict order, whose word is in text; 0 if none
FirstOverride(text) ==
    IF \E i \in 1..Len(TimeOverrides) : Contains(text, TimeOverrides[i].word)
    THEN CHOOSE i \in 1..Len(TimeOverrides) :
            /\ Contains(text, TimeOverrides[i].word)
            /\ \A j \in 1..(i - 1) : ~Contains(text, TimeOverrides[j].word)
    ELSE 0

\* text = raw_due.strip().lower()
Normalized(raw_due) == Lower(Strip(raw_due))

\* the text handed to dateparser.parse: the matched word removed, then strip()
GrammarInput(raw_due) ==
    LET text == Normalized(raw_due)
        m == FirstOverride(text)
    IN IF m = 0 THEN text ELSE Strip(Remove(text, TimeOverrides[m].word))

\* datetime values of the model
DateTime(y, mo, d, h, mi, sec, us) ==
    [year |-> y, month |-> mo, day |-> d, hour |-> h, minute |-> mi,
     second |-> sec, microsecond |-> us]

\* what dateparser.parse may return: nothing, or one datetime.  The date grammar
\* is a library outside the repository: its result is left open.
GrammarResults ==
    {<<>>,
     <<DateTime(2025, 9, 5, 0, 0, 0, 0)>>,
     <<DateTime(2025, 9, 18, 10, 30, 0, 0)>>,
     <<DateTime(2025, 12, 6, 10, 15, 7, 120000)>>}

DigitChars == <<"0", "1", "2", "3", "4", "5", "6", "7", "8", "9">>

\* the decimal digits of n, zero-padded to width w
RECURSIVE Pad(_, _)
Pad(n, w) == IF w = 0 THEN <<>> ELSE Pad(n \div 10, w - 1) \o <<DigitChars[(n % 10) + 1]>>

\* date.isoformat(): YYYY-MM-DD
DateIso(dt) == Pad(dt.year, 4) \o <<"-">> \o Pad(dt.month, 2) \o <<"-">> \o Pad(dt.day, 2)

\* time part of datetime.isoformat(): HH:MM:SS, and .ffffff when microsecond is not 0
TimeIso(dt) ==
    Pad(dt.hour, 2) \o <<":">> \o Pad(dt.minute, 2) \o <<":">> \o Pad(dt.second, 2)
    \o (IF dt.microsecond = 0 THEN <<>> ELSE <<".">> \o Pad(dt.microsecond, 6))

\* datetime.isoformat()
DateTimeIso(dt) == DateIso(dt) \o <<"T">> \o TimeIso(dt)

\* (mutation of OverrideTime) the hour and minute the grammar parsed are kept
OverrideTimeKept(dt, m) == dt

\* parsed.replace(hour=matched_time[0], minute=matched_time[1])
OverrideTime(dt, m) ==
    [dt EXCEPT !.hour = TimeOverrides[m].hour, !.minute = TimeOverrides[m].minute]

\* the value returned when the raw phrase holds an explicit numeric time
ExplicitTimeResult(dt) == DateTimeIso(dt)

\* (mutation of Unrecognized) the phrase itself is returned when it does not parse
UnrecognizedKeepsText(raw_due) == Strip(raw_due)

\* `if not parsed`: a warning is logged and None is returned
Unrecognized(raw_due) == None

\* parse_due_date(raw_due), where dateparser.parse returned `parsed`
parse_due_date(raw_due, parsed) ==
    IF Falsy(raw_due) THEN None
    ELSE LET m == FirstOverride(Normalized(raw_due))
         IN IF parsed = <<>> THEN Unrecognized(raw_due)
            ELSE IF m # 0 THEN DateTimeIso(OverrideTime(parsed[1], m))
            ELSE IF TimePatternSearch(raw_due) THEN ExplicitTimeResult(parsed[1])
            ELSE DateIso(parsed[1])

\* (mutation of GrammarCalled) the date grammar is consulted for every input
GrammarCalledAlways(raw_due) == TRUE

\* is dateparser.parse reached at all
GrammarCalled(raw_due) == ~Falsy(raw_due)

\* the vocabulary due-date phrases of the model are built from
Pieces ==
    {<<"e", "v", "e", "n", "i", "n", "g">>,
      <<"M", "o", "r", "n", "i", "n", "g">>,
      <<"n", "i", "g", "h", "t">>,
      <<"t", "o">>,
      <<" ">>,
      <<"t", "o", "m", "o", "r", "r", "o", "w">>,
      <<"1", "0", ":", "3", "0">>,
      <<" ", "5", ".", "0", "9", " ">>,
      <<"1">>,
      <<"a", "m">>,
      <<"a", "f", "t", "e", "r", "n", "o", "o", "n">>,
      <<"i", "g", "h", "t">>,
      <<"U+0432", "U+0435", "U+0447", "U+0435", "U+0440", "U+043E", "U+043C">>}

\* the phrases built from at most n pieces
RECURSIVE PhrasesUpTo(_)
PhrasesUpTo(n) ==
    IF n = 0 THEN {<<>>}
    ELSE LET shorter == PhrasesUpTo(n - 1)
         IN shorter \cup {p \o q : p \in shorter, q \in Pieces}

Phrases == PhrasesUpTo(MaxPieces)

UnchangedButResolver == UNCHANGED <<frames, runs, nodeState, tasks, nextId, lastCall, agent>>

\* one call of parse_due_date
Resolve ==
    /\ resolver.phase = "input"
    /\ \E parsed \in (IF GrammarCalled(resolver.raw_due) THEN GrammarResults ELSE {<<>>}) :
          resolver' = [phase |-> "done", raw_due |-> resolver.raw_due,
                       called |-> GrammarCalled(resolver.raw_due),
                       text |-> IF GrammarCalled(resolver.raw_due)
                                THEN GrammarInput(resolver.raw_due) ELSE None,
                       parsed |-> parsed,
                       result |-> parse_due_date(resolver.raw_due, parsed)]
    /\ UnchangedButResolver

-----------------------------------------------------------------------------
(* setup.py and mcp_server.py: the tasks table and the tools that write it *)

\* the reference tables setup_database fills, by AUTOINCREMENT id
PriorityNames == <<<<"l", "o", "w">>, <<"n", "o", "r", "m", "a", "l">>, <<"h", "i", "g", "h">>>>
CategoryNames == <<<<"g", "e", "n", "e", "r", "a", "l">>, <<"w", "o", "r", "k">>, <<"p", "e", "r", "s", "o", "n", "a", "l">>, <<"s", "t", "u", "d", "y">>>>
StatusNames == <<<<"t", "o", "d", "o">>, <<"i", "n", "_", "p", "r", "o", "g", "r", "e", "s", "s">>, <<"d", "o", "n", "e">>, <<"b", "l", "o", "c", "k", "e", "d">>>>

\* column defaults of the tasks table
DefaultPriorityId == 2
DefaultCategoryId == 1
DefaultStatusId == 1

\* number of letters SQLite's LOWER() and LIKE fold: the ASCII ones
AsciiLetters == 26

\* SQLite LOWER(): ASCII letters only
SqlLowerChar(c) ==
    IF \E i \in 1..AsciiLetters : UpperCase[i] = c
    THEN LowerCase[CHOOSE i \in 1..AsciiLetters : UpperCase[i] = c]
    ELSE c
SqlLower(s) == [i \in 1..Len(s) |-> SqlLowerChar(s[i])]

\* SQLite `text LIKE pattern`: % is any run of characters, _ any one character
RECURSIVE Like(_, _)
Like(t, pat) ==
    IF pat = <<>> THEN t = <<>>
    ELSE IF Head(pat) = "%" THEN Like(t, Tail(pat)) \/ (t # <<>> /\ Like(Tail(t), pat))
    ELSE IF t = <<>> THEN FALSE
    ELSE IF Head(pat) = "_" \/ SqlLowerChar(Head(pat)) = SqlLowerChar(Head(t))
         THEN Like(Tail(t), Tail(pat))
    ELSE FALSE

\* LOWER(column) LIKE LOWER(pattern); NULL matches nothing
ColumnLike(v, pat) == v # None /\ Like(SqlLower(v), SqlLower(pat))

\* (mutation of LookupId) a name that is in no row resolves to the first row
LookupIdLenient(names, name) ==
    IF \E i \in 1..Len(names) : SqlLower(names[i]) = SqlLower(name)
    THEN CHOOSE i \in 1..Len(names) : SqlLower(names[i]) = SqlLower(name)
    ELSE 1

\* SELECT id FROM <reference table> WHERE LOWER(name) = LOWER(?); 0 when no row
LookupId(names, name) ==
    IF \E i \in 1..Len(names) : SqlLower(names[i]) = SqlLower(name)
    THEN CHOOSE i \in 1..Len(names) : SqlLower(names[i]) = SqlLower(name)
    ELSE 0

\* a row of the tasks table
Row(id, title, description, due, priority_id, category_id, status_id) ==
    [id |-> id, title |-> title, description |-> description, due_date |-> due,
     priority_id |-> priority_id, category_id |-> category_id, status_id |-> status_id]

\* a column that is left out of the INSERT takes its default
OrDefault(v, default) == IF v = 0 THEN default ELSE v

\* what a tool returns, with the due-date phrase it was given and what the date
\* grammar returned for it, when it was consulted
Return(op, status, message, id, count, due_in, parsed) ==
    [op |-> op, status |-> status, message |-> message, id |-> id, count |-> count,
     due_in |-> due_in, parsed |-> parsed]

\* the outcome of a tool: the table after it, and what it returns
Outcome(db, ret) == [tasks |-> db, ret |-> ret]

\* (mutation of EmptyTitle) the title is tested without strip()
EmptyTitleUnstripped(title) == Falsy(title)

\* `not title or not title.strip()`
EmptyTitle(title) == Falsy(title) \/ Strip(title) = <<>>

\* add_task(title, description, due_date, priority_id, ...), where dateparser.parse
\* returned `parsed`; an id of 0 stands for None
add_task(db, id, title, description, due_date, priority_id, parsed) ==
    IF EmptyTitle(title)
    THEN Outcome(db, Return("add_task", "error", "Task title cannot be empty", 0, 0,
                            due_date, <<>>))
    ELSE LET row == Row(id, Strip(title), description, parse_due_date(due_date, parsed),
                        OrDefault(priority_id, DefaultPriorityId),
                        DefaultCategoryId, DefaultStatusId)
         IN Outcome(db @@ (id :> row),
                    Return("add_task", "success", "none", id, 1, due_date,
                           IF GrammarCalled(due_date) THEN parsed ELSE <<>>))

\* the ids search_tasks finds for the stripped query
Matching(db, query) ==
    LET pat == <<"%">> \o Strip(query) \o <<"%">>
    IN {i \in DOMAIN db : ColumnLike(db[i].title, pat) \/ ColumnLike(db[i].description, pat)}

\* the value edit_task stores for a text column that may be emptied
StripOrNone(v) == IF Strip(v) # <<>> THEN Strip(v) ELSE None

\* the due date edit_task stores: due_date.strip(), or None when that is empty
EditedDue(due_date) == StripOrNone(due_date)

\* the columns edit_task sets on the row, given the ids its lookups found
Updated(row, a, priority_id, status_id) ==
    [row EXCEPT
        !.title = IF a.title # None THEN Strip(a.title) ELSE @,
        !.description = IF a.description # None THEN StripOrNone(a.description) ELSE @,
        !.priority_id = IF a.priority # None THEN priority_id ELSE @,
        !.status_id = IF a.status # None THEN status_id ELSE @,
        !.due_date = IF a.due_date # None THEN EditedDue(a.due_date) ELSE @]

\* (mutation of MultipleFound) several matches are never told apart from one
MultipleFoundNever(found) == FALSE

\* edit_task: len(found_tasks) > 1
MultipleFound(found) == Cardinality(found) > 1

\* edit_task(search_query, title, description, priority, category, status, due_date)
edit_task(db, a) ==
    LET Error(msg) == Outcome(db, Return("edit_task", "error", msg, 0, 0, a.due_date, <<>>))
    IN
    IF Falsy(a.search_query) \/ Strip(a.search_query) = <<>>
    THEN Error("Search query cannot be empty")
    ELSE LET found == Matching(db, Strip(a.search_query)) IN
    IF Cardinality(found) = 0 THEN Error("No tasks found")
    ELSE IF MultipleFound(found)
    THEN Outcome(db, Return("edit_task", "multiple_found", "Please be more specific", 0,
                            Cardinality(found), a.due_date, <<>>)
                     @@ [candidates |-> found])
    ELSE LET id == CHOOSE i \in found : \A j \in found : i <= j
             priority_id == IF a.priority = None THEN 0
                            ELSE LookupId(PriorityNames, Strip(a.priority))
             category_id == IF a.category = None THEN 0
                            ELSE LookupId(CategoryNames, Strip(a.category))
             status_id == IF a.status = None THEN 0
                          ELSE LookupId(StatusNames, Strip(a.status))
         IN
    IF a.priority # None /\ priority_id = 0 THEN Error("Priority not found")
    ELSE IF a.category # None /\ category_id = 0 THEN Error("Category not found")
    ELSE IF a.status # None /\ status_id = 0 THEN Error("Status not found")
    ELSE IF /\ a.title = None /\ a.description = None /\ a.priority = None
            /\ a.category = None /\ a.status = None /\ a.due_date = None
    THEN Error("No fields to update provided")
    ELSE Outcome([db EXCEPT ![id] =
                     [Updated(db[id], a, priority_id, status_id) EXCEPT
                         !.category_id = IF a.category # None THEN category_id ELSE @]],
                 Return("edit_task", "success", "updated", id, 1, a.due_date, <<>>))

\* (mutation of InvalidId) only the sign of the id is tested
InvalidIdSignOnly(arg) == arg.value <= 0

\* delete_task: not isinstance(id, int) or id <= 0
InvalidId(arg) == ~arg.int \/ arg.value <= 0

\* delete_task(id); arg.int tells whether the argument is an int at all
delete_task(db, arg) ==
    LET Error(msg) == Outcome(db, Return("delete_task", "error", msg, 0, 0, None, <<>>))
    IN
    IF InvalidId(arg) THEN Error("Invalid task ID")
    ELSE IF arg.value \notin DOMAIN db THEN Error("Task not found")
    ELSE Outcome([i \in DOMAIN db \ {arg.value} |-> db[i]],
                 Return("delete_task", "success", "deleted", arg.value, 1, None, <<>>))

\* arguments the tools of the model are called with
AddTitles == {None, <<>>, <<" ">>, <<" ", "M", "i", "l", "k", " ">>}
AddDuePhrases ==
    {None, <<>>, <<"t", "o", "m", "o", "r", "r", "o", "w">>,
     <<"e", "v", "e", "n", "i", "n", "g">>, <<"1", "0", ":", "3", "0">>}
StoreGrammarResults == {<<>>, <<DateTime(2025, 9, 5, 0, 0, 0, 0)>>}
EditQueries == {None, <<" ">>, <<"m", "i", "l", "k">>, <<"t", "e", "a">>, <<"_">>}
DeleteArgs == {[int |-> TRUE, value |-> v] : v \in {-1, 0, 1, 2}} \cup {[int |-> FALSE, value |-> 1]}

\* the optional arguments of edit_task: none of them, one of them, or two
Fields(title, description, priority, category, status, due_date) ==
    [title |-> title, description |-> description, priority |-> priority,
     category |-> category, status |-> status, due_date |-> due_date]
EditFields ==
    {Fields(None, None, None, None, None, None),
     Fields(<<" ">>, None, None, None, None, None),
     Fields(<<"t", "e", "a">>, None, None, None, None, None),
     Fields(None, <<" ">>, None, None, None, None),
     Fields(None, None, <<" ", "H", "i", "g", "h">>, None, None, None),
     Fields(<<"t", "e", "a">>, None, <<"u", "r", "g", "e", "n", "t">>, None, None, None),
     Fields(<<"t", "e", "a">>, None, None, <<"f", "u", "n">>, None, None),
     Fields(<<"t", "e", "a">>, None, None, None, <<"n", "o", "p", "e">>, None),
     Fields(None, None, None, None, None, <<" ">>),
     Fields(None, None, None, None, None, <<"t", "o", "m", "o", "r", "r", "o", "w">>)}

EditArgs ==
    {[search_query |-> q, title |-> f.title, description |-> f.description,
      priority |-> f.priority, category |-> f.category, status |-> f.status,
      due_date |-> f.due_date] : q \in EditQueries, f \in EditFields}

UnchangedButStore == UNCHANGED <<frames, runs, nodeState, resolver, agent>>

AddTask ==
    /\ nextId <= MaxTasks
    /\ \E title \in AddTitles, due_date \in AddDuePhrases :
          \E parsed \in (IF GrammarCalled(due_date) THEN StoreGrammarResults ELSE {<<>>}) :
             LET res == add_task(tasks, nextId, title, None, due_date, 0, parsed)
             IN /\ tasks' = res.tasks
                /\ lastCall' = res.ret @@ [title |-> title]
                /\ nextId' = IF res.ret.status = "success" THEN nextId + 1 ELSE nextId
    /\ UnchangedButStore

EditTask ==
    /\ \E a \in EditArgs :
          LET res == edit_task(tasks, a)
          IN /\ tasks' = res.tasks
             /\ lastCall' = res.ret @@ [query |-> a.search_query]
    /\ UNCHANGED nextId
    /\ UnchangedButStore

DeleteTask ==
    /\ \E arg \in DeleteArgs :
          LET res == delete_task(tasks, arg)
          IN /\ tasks' = res.tasks
             /\ lastCall' = res.ret @@ [arg |-> arg]
    /\ UNCHANGED nextId
    /\ UnchangedButStore

\* edit_task on a table that holds one row, all its arguments kept for the record
EditTaskFields ==
    /\ \E a \in EditArgs :
          LET res == edit_task(tasks, a)
          IN /\ tasks' = res.tasks
             /\ lastCall' = res.ret @@ [args |-> a]
    /\ UNCHANGED nextId
    /\ UnchangedButStore

-----------------------------------------------------------------------------
(* Properties of parse_due_date *)

\* the phrase holds a time-of-day word, in any letter case
HasToken(raw) ==
    \E i \in 1..Len(TimeOverrides) : Contains(Lower(raw), TimeOverrides[i].word)

\* HH:MM of the time-of-day words the phrase holds
TokenTimes(raw) ==
    {Pad(TimeOverrides[i].hour, 2) \o <<":">> \o Pad(TimeOverrides[i].minute, 2) :
        i \in {j \in 1..Len(TimeOverrides) : Contains(Lower(raw), TimeOverrides[j].word)}}

\* the phrase holds one or two digits, `:` or `.`, and two digits, with no
\* further digit on either side
NumericTimeAt(s, i, nd) ==
    /\ i + nd + 2 <= Len(s)
    /\ i > 1 => s[i - 1] \notin Digits
    /\ \A j \in i..(i + nd - 1) : s[j] \in Digits
    /\ s[i + nd] \in {":", "."}
    /\ s[i + nd + 1] \in Digits
    /\ s[i + nd + 2] \in Digits
    /\ i + nd + 3 <= Len(s) => s[i + nd + 3] \notin Digits
ContainsNumericTime(s) ==
    \E i \in 1..Len(s) : \E nd \in {1, 2} : NumericTimeAt(s, i, nd)

\* the shape of a returned value: YYYY-MM-DDTHH:MM:SS..., or YYYY-MM-DD
IsDateTimeValue(x) == Len(x) >= 19 /\ x[11] = "T"
IsDateOnlyValue(x) == Len(x) = 10
HourMinuteOf(x) == SubSeq(x, 12, 16)

Resolved == resolver.phase = "done" /\ resolver.result # None

\* C9: for a non-empty phrase that holds a time-of-day word, the hour and minute
\* of the resolver's result are those the word maps to, whatever time the date
\* grammar parsed and also when the phrase holds a numeric HH:MM time.  (A
\* result has an hour and a minute only when the phrase resolves.)
C9_TokenSetsHourMinute ==
    (Resolved /\ HasToken(resolver.raw_due)) =>
        /\ IsDateTimeValue(resolver.result)
        /\ HourMinuteOf(resolver.result) \in TokenTimes(resolver.raw_due)

\* C9 witness: "evening 5.09 " parsed as 10:30 comes back at 18:00
C9_Witness ==
    /\ Resolved
    /\ Contains(resolver.raw_due, <<"e", "v", "e", "n", "i", "n", "g">>)
    /\ TimePatternSearch(resolver.raw_due)
    /\ resolver.parsed[1].hour = 10
    /\ HourMinuteOf(resolver.result) = <<"1", "8", ":", "0", "0">>

\* C30 as stated: when a time-of-day word is matched and the rest parses, the
\* result is the parsed date at the word's hour and minute with seconds 00 and
\* no fraction, whatever seconds and microseconds the grammar's datetime carried.
C30_TokenZeroesSeconds ==
    (Resolved /\ HasToken(resolver.raw_due)) =>
        /\ Len(resolver.result) = 19
        /\ SubSeq(resolver.result, 1, 10) = DateIso(resolver.parsed[1])
        /\ SubSeq(resolver.result, 17, 19) = <<":", "0", "0">>

\* C10 as stated: a phrase that holds an explicit HH:MM or HH.MM time and no
\* time-of-day word resolves to a date-time (the date and time as parsed), never
\* to a date alone.
C10_NumericTimeGivesDateTime ==
    (Resolved /\ ContainsNumericTime(resolver.raw_due) /\ ~HasToken(resolver.raw_due)) =>
        /\ IsDateTimeValue(resolver.result)
        /\ resolver.result = DateTimeIso(resolver.parsed[1])

\* C11: a phrase that holds neither a time-of-day word nor a numeric HH:MM time
\* resolves to the date alone, YYYY-MM-DD, whatever time of day the date grammar
\* parsed.  (A phrase the grammar cannot parse has no value at all.)
C11_NoTimeGivesDateOnly ==
    (/\ Resolved
     /\ ~HasToken(resolver.raw_due)
     /\ ~ContainsNumericTime(resolver.raw_due)) =>
        /\ IsDateOnlyValue(resolver.result)
        /\ resolver.result = DateIso(resolver.parsed[1])

\* C11 witness: "tomorrow" parsed as 10:15:07.12 comes back as the date alone
C11_Witness ==
    /\ Resolved
    /\ resolver.raw_due = <<"t", "o", "m", "o", "r", "r", "o", "w">>
    /\ resolver.parsed[1].hour = 10
    /\ resolver.parsed[1].microsecond # 0
    /\ resolver.result = <<"2", "0", "2", "5", "-", "1", "2", "-", "0", "6">>

\* the time_overrides entries whose word the normalized phrase holds
TokensIn(raw) ==
    {j \in 1..Len(TimeOverrides) : Contains(Normalized(raw), TimeOverrides[j].word)}

\* the entry that comes first in the order of the lexicon
FirstInLexicon(raw) == CHOOSE j \in TokensIn(raw) : \A k \in TokensIn(raw) : j <= k

\* the positions of the normalized phrase an occurrence of word w at p covers
Span(w, p) == p..(p + Len(w) - 1)

\* word j occurs in the normalized phrase clear of every occurrence of word m
OccursClearOf(raw, j, m) ==
    LET text == Normalized(raw)
        wj == TimeOverrides[j].word
        wm == TimeOverrides[m].word
    IN \E p \in 1..Len(text) :
          /\ OccursAt(text, wj, p)
          /\ \A q \in 1..Len(text) :
                OccursAt(text, wm, q) => Span(wj, p) \cap Span(wm, q) = {}

SeveralTokens == resolver.phase = "done" /\ resolver.called
                 /\ Cardinality(TokensIn(resolver.raw_due)) >= 2

\* the result carries the time of the first word in lexicon order
HonorsFirstInLexicon ==
    LET m == FirstInLexicon(resolver.raw_due)
    IN resolver.result # None =>
          HourMinuteOf(resolver.result) =
              Pad(TimeOverrides[m].hour, 2) \o <<":">> \o Pad(TimeOverrides[m].minute, 2)

\* C12 as stated: of several time-of-day words in a phrase the first in lexicon
\* order sets the time, that word is absent from the text handed to the date
\* grammar, and every other time-of-day word of the phrase is still in that text.
C12_OtherTokensLeft ==
    SeveralTokens =>
        LET m == FirstInLexicon(resolver.raw_due) IN
        /\ HonorsFirstInLexicon
        /\ ~Contains(resolver.text, TimeOverrides[m].word)
        /\ \A j \in TokensIn(resolver.raw_due) \ {m} :
              Contains(resolver.text, TimeOverrides[j].word)

\* C12, amended: of several time-of-day words in a phrase the first in lexicon
\* order sets the time and is cut out of the text handed to the date grammar;
\* every other time-of-day word that occurs clear of the cut-out word is still in
\* that text (a word that overlaps the cut-out one goes with it).
C12_NonOverlappingTokensLeft ==
    SeveralTokens =>
        LET m == FirstInLexicon(resolver.raw_due) IN
        /\ HonorsFirstInLexicon
        /\ Len(resolver.text) + Len(TimeOverrides[m].word)
              <= Len(Normalized(resolver.raw_due))
        /\ \A j \in TokensIn(resolver.raw_due) \ {m} :
              OccursClearOf(resolver.raw_due, j, m) =>
                  Contains(resolver.text, TimeOverrides[j].word)

\* C12 witness: in "nightevening" the later word is first in the lexicon; the
\* result is at 18:00 and "night" is what the date grammar is given
C12_Witness ==
    /\ Resolved
    /\ resolver.raw_due = <<"n", "i", "g", "h", "t", "e", "v", "e", "n", "i", "n", "g">>
    /\ HourMinuteOf(resolver.result) = <<"1", "8", ":", "0", "0">>
    /\ resolver.text = <<"n", "i", "g", "h", "t">>

\* C13: for None and for the empty string the resolver returns None, and the
\* date grammar is not consulted.
C13_EmptyInputUnresolved ==
    (resolver.phase = "done" /\ resolver.raw_due \in {None, <<>>}) =>
        /\ resolver.result = None
        /\ ~resolver.called
        /\ resolver.parsed = <<>>

\* C13 witness: the call with None has returned
C13_Witness ==
    /\ resolver.phase = "done"
    /\ resolver.raw_due = None
    /\ resolver.result = None

-----------------------------------------------------------------------------
(* Properties of the stored and the assembled due date *)

\* what the resolver can return for a phrase
ResolverOutputs(phrase) == {parse_due_date(phrase, parsed) : parsed \in GrammarResults}

\* C7 as stated: the due date of the assembled task is the resolver-normalized
\* due date of the description, not the raw text the model returned in the
\* due-date stage; the raw model output never reaches the assembled task.
C7_AssembledDueIsResolved ==
    (nodeState.phase = "ready" /\ nodeState.state.task.kind = "dict") =>
        nodeState.state.task.due_date \in ResolverOutputs(nodeState.state.description)

\* C8 as stated: every due date that add_task or edit_task writes into a task
\* is the output of parse_due_date for the phrase the caller supplied; no
\* unnormalized phrase is stored, after any sequence of calls.
C8_StoredDueIsResolved ==
    (/\ lastCall.op \in {"add_task", "edit_task"}
     /\ lastCall.status = "success"
     /\ lastCall.due_in # None) =>
        tasks[lastCall.id].due_date \in ResolverOutputs(lastCall.due_in)

\* the last call was add_task with a usable title and a due-date phrase that
\* the date grammar was given and could not parse
AddedUnparsedDue ==
    /\ lastCall.op = "add_task"
    /\ ~(lastCall.title = None \/ \A i \in 1..Len(lastCall.title) : lastCall.title[i] \in Whitespace)
    /\ lastCall.due_in \notin {None, <<>>}
    /\ lastCall.parsed = <<>>

\* C14: when the date grammar cannot parse the phrase, with or without a
\* time-of-day word or a numeric time in it, the resolver's value is None and
\* nothing is raised: add_task succeeds and the row it stores has no due date.
C14_UnparsedDueStoredAsNone ==
    AddedUnparsedDue =>
        /\ lastCall.status = "success"
        /\ lastCall.id \in DOMAIN tasks
        /\ tasks[lastCall.id].due_date = None
        /\ parse_due_date(lastCall.due_in, <<>>) = None

\* C14 witness: add_task with "evening" that did not parse stored a row
C14_Witness ==
    /\ AddedUnparsedDue
    /\ HasToken(lastCall.due_in)
    /\ lastCall.status = "success"
    /\ tasks[lastCall.id].due_date = None

\* the title is None, empty, or whitespace only
BlankTitle(title) ==
    title = None \/ \A i \in 1..Len(title) : title[i] \in Whitespace

\* C19: add_task with a None, empty or whitespace-only title returns the
\* validation error at once, in that one call, and the table is as it was: no
\* row is inserted and no id is used up.
C19_BlankTitleRejected ==
    [][(lastCall'.op = "add_task" /\ BlankTitle(lastCall'.title)) =>
          /\ lastCall'.status = "error"
          /\ lastCall'.message = "Task title cannot be empty"
          /\ tasks' = tasks
          /\ nextId' = nextId]_vars

\* C19 witness: a whitespace-only title was rejected while the table holds a row
C19_Witness ==
    /\ lastCall.op = "add_task"
    /\ lastCall.title = <<" ">>
    /\ lastCall.status = "error"
    /\ DOMAIN tasks = {1}

\* C27: edit_task changes a task only when its query matches exactly one: an
\* empty query or no match is answered with an error, several matches with
\* status multiple_found and the candidates, and the table is as it was in all
\* three cases; with one match the rows other than the matched one are as they
\* were and no row is added or removed.
C27_EditOnlySingleMatch ==
    [][lastCall'.op = "edit_task" =>
          LET q == lastCall'.query
              found == IF BlankTitle(q) THEN {} ELSE Matching(tasks, q)
          IN /\ (BlankTitle(q) \/ found = {}) =>
                   (lastCall'.status = "error" /\ tasks' = tasks)
             /\ Cardinality(found) > 1 =>
                   /\ lastCall'.status = "multiple_found"
                   /\ lastCall'.candidates = found
                   /\ lastCall'.count = Cardinality(found)
                   /\ tasks' = tasks
             /\ Cardinality(found) = 1 =>
                   /\ lastCall'.status \in {"success", "error"}
                   /\ lastCall'.status = "success" => lastCall'.id \in found
                   /\ lastCall'.status = "error" => tasks' = tasks
                   /\ DOMAIN tasks' = DOMAIN tasks
                   /\ \A i \in DOMAIN tasks \ found : tasks'[i] = tasks[i]
             /\ tasks' # tasks => Cardinality(found) = 1]_vars

\* C27 witness: with two rows titled Milk in the table, the query "milk" was
\* answered multiple_found with both rows as candidates
C27_Witness ==
    /\ lastCall.op = "edit_task"
    /\ lastCall.query = <<"m", "i", "l", "k">>
    /\ lastCall.status = "multiple_found"
    /\ lastCall.candidates = {1, 2}
    /\ \A i \in {1, 2} : tasks[i].title = <<"M", "i", "l", "k">>

\* C28: delete_task with an id that is not an int, not positive, or of no row
\* returns an error and the table is as it was; with the id of a row it removes
\* that row, leaves the other rows as they were and returns success with the id.
C28_DeleteExactlyThatTask ==
    [][lastCall'.op = "delete_task" =>
          LET arg == lastCall'.arg IN
          IF ~arg.int \/ arg.value <= 0 \/ arg.value \notin DOMAIN tasks
          THEN lastCall'.status = "error" /\ tasks' = tasks
          ELSE /\ lastCall'.status = "success"
               /\ lastCall'.id = arg.value
               /\ DOMAIN tasks' = DOMAIN tasks \ {arg.value}
               /\ \A i \in DOMAIN tasks' : tasks'[i] = tasks[i]]_vars

\* C28 witness: of two rows the first was deleted and the second is still there
C28_Witness ==
    /\ lastCall.op = "delete_task"
    /\ lastCall.status = "success"
    /\ lastCall.id = 1
    /\ DOMAIN tasks = {2}

\* C29 as stated: after any sequence of add_task, edit_task and delete_task
\* every row has a title that is neither empty nor whitespace only.
C29_TitlesNeverBlank ==
    \A i \in DOMAIN tasks : ~BlankTitle(tasks[i].title)

\* the name is given and is in no row of the reference table
UnknownName(names, name) ==
    /\ name # None
    /\ \A i \in 1..Len(names) : SqlLower(names[i]) # SqlLower(Strip(name))

\* C36: when the query of edit_task matches one task and a given priority,
\* category or status name is in no row of its reference table, or no field is
\* given at all, the call returns an error and the table is as it was: also the
\* valid fields given in the same call (a new title) are not stored.
C36_EditAllOrNothing ==
    [][lastCall'.op = "edit_task" =>
          LET a == lastCall'.args
              found == IF BlankTitle(a.search_query) THEN {}
                       ELSE Matching(tasks, a.search_query)
              nothing == /\ a.title = None /\ a.description = None
                         /\ a.priority = None /\ a.category = None
                         /\ a.status = None /\ a.due_date = None
          IN (/\ Cardinality(found) = 1
              /\ \/ UnknownName(PriorityNames, a.priority)
                 \/ UnknownName(CategoryNames, a.category)
                 \/ UnknownName(StatusNames, a.status)
                 \/ nothing)
             => (lastCall'.status = "error" /\ tasks' = tasks)]_vars

\* C36 witness: a call that gave the new title "tea" together with the unknown
\* priority "urgent" returned an error and the row still has its title
C36_Witness ==
    /\ lastCall.op = "edit_task"
    /\ lastCall.args.search_query = <<"m", "i", "l", "k">>
    /\ lastCall.args.title = <<"t", "e", "a">>
    /\ lastCall.args.priority = <<"u", "r", "g", "e", "n", "t">>
    /\ lastCall.status = "error"
    /\ tasks[1].title = <<"M", "i", "l", "k">>

-----------------------------------------------------------------------------
(* Properties of the chat agent *)

\* the last finished call was a user message
MessageAnswered == agent.last.op \in {"process_message", "chat_endpoint"}

\* C16 as stated: an exchange with the model that fails in process_message is
\* retried up to the budget of the wrapper: after a failed invocation the model
\* is invoked again, and an error is answered only when the last attempt of the
\* budget has failed.
C16_FailedExchangeRetried ==
    (MessageAnswered /\ agent.last.fails >= 1) =>
        \/ agent.last.invokes = agent.last.fails + 1
        \/ agent.last.fails = DefaultMaxRetries

\* C17: the react agent is invoked for a message only on an agent that an
\* earlier initialize made ready, with the configuration validated and a tool
\* list loaded; an initialize whose validation fails returns False without a
\* connection attempt, and as long as no initialize has succeeded every message
\* is answered with the not-ready text and no model call.
C17_NoInvokeBeforeInitialized ==
    /\ (agent.pc = "invoking" \/ agent.invoked > 0) =>
          /\ agent.initialized
          /\ agent.agent # NoValue
          /\ agent.tools # <<>>
          /\ agent.init.pc = "returned"
    /\ (agent.last.op = "initialize" /\ agent.last.config = "missing_key") =>
          /\ agent.last.ret = FALSE
          /\ agent.last.connects = 0
          /\ agent.pc = "idle" => (agent.got = <<>> /\ ~is_ready(agent))
    /\ (MessageAnswered /\ ~agent.initialized) =>
          /\ agent.last.response \in {NotReady, NotReadyChat}
          /\ agent.last.invokes = 0
          /\ agent.invoked = 0

\* C17 witness: validation failed in an initialize, and a message sent to /chat
\* afterwards got the not-ready answer
C17_Witness ==
    /\ agent.validationFailed
    /\ ~agent.initialized
    /\ agent.last.op = "chat_endpoint"
    /\ agent.last.response = NotReadyChat
    /\ agent.invoked = 0

\* C18: a connection attempt that yields an empty tool list is a failed attempt
\* of _init_mcp_client: the wrapper retries it while the budget lasts, and when
\* every attempt of the budget yields an empty list or raises, initialize
\* returns False and the agent is not ready; a ready agent has a non-empty
\* tool list.
C18_EmptyToolSetFailsAttempt ==
    /\ \A k \in 1..Len(agent.got) :
          agent.got[k] = <<>> =>
              /\ \E i \in FailOf(agent.init, k) : agent.init.trace[i][3] = "NoTools"
              /\ OkOf(agent.init, k) = {}
              /\ k < DefaultMaxRetries =>
                    \/ agent.pc = "connecting" /\ agent.init.pc = "sleep"
                    \/ Calls(agent.init) > k
    /\ Fails(agent.init) = DefaultMaxRetries =>
          /\ agent.init.pc = "raised"
          /\ agent.last.op = "initialize" => ~agent.last.ret
          /\ ~is_ready(agent)
    /\ is_ready(agent) => agent.tools # <<>>

\* C18 witness: both attempts got an empty tool list and initialize returned False
C18_Witness ==
    /\ agent.got = << <<>>, <<>> >>
    /\ agent.last.op = "initialize"
    /\ agent.last.ret = FALSE
    /\ agent.last.connects = DefaultMaxRetries
    /\ ~is_ready(agent)

\* the answers a message can get
Answers == {ErrorMsg(e) : e \in ModelErrors \cup {"KeyError", "AttributeError"}}
ReadyAnswers == FinalAnswers \cup Answers

\* C20: process_message raises nothing to its caller; what it returns, and what
\* /chat returns, is one string: the final answer of the agent or one error
\* text, and after a failure of the exchange it is the error text alone.
C20_OneAnswerNeverRaises ==
    MessageAnswered =>
        /\ agent.last.raised = NoValue
        /\ agent.last.response \in ReadyAnswers \cup {NotReady, NotReadyChat}
        /\ agent.last.fails > 0 => agent.last.response \in Answers
        /\ agent.last.response \in FinalAnswers => agent.last.fails = 0

\* C20 witness: ainvoke raised during a /chat message and the answer is the
\* error text
C20_Witness ==
    /\ agent.last.op = "chat_endpoint"
    /\ agent.last.fails = 1
    /\ agent.last.response = ErrorMsg("Timeout")
    /\ agent.last.raised = NoValue

\* C34 as stated: one agent is initialized at most once: also when two
\* initialize calls overlap, the react agent is created once and no get_tools
\* call ends after _initialized was set.
C34_InitializedOnce ==
    agent.created <= 1 /\ agent.lateConnects = 0

\* the step is a call of initialize on the agent
InitializeCalled ==
    /\ agent'.calls = agent.calls + 1
    /\ agent'.pc = "connecting" \/ agent'.last.op = "initialize"

-----------------------------------------------------------------------------
(* Idle values of the parts a specification does not exercise *)

NoRuns == <<>>
NoNodeState == [phase |-> "none"]
NoResolver == [phase |-> "none"]
NoCall == [op |-> "none"]
NoAgent == [pc |-> "none"]

InitRetry ==
    /\ frames \in [{"c1"} -> {NewFrame(n, d) : n \in 0..MaxRetries, d \in Delays}]
    /\ runs = NoRuns
    /\ nodeState = NoNodeState
    /\ resolver = NoResolver
    /\ tasks = <<>>
    /\ nextId = 1
    /\ lastCall = NoCall
    /\ agent = NoAgent

NextRetry ==
    \E c \in DOMAIN frames :
        \/ WrapperCall(c)
        \/ FuncReturns(c)
        \/ FuncRaises(c)
        \/ SleepDone(c)

SpecRetry == InitRetry /\ [][NextRetry]_vars

\* the wrapper when every awaited attempt and every asyncio.sleep comes back
RetryFairness ==
    /\ WF_vars(\E c \in DOMAIN frames : FuncReturns(c) \/ FuncRaises(c))
    /\ WF_vars(\E c \in DOMAIN frames : SleepDone(c))

SpecRetryLive == InitRetry /\ [][NextRetry]_vars /\ RetryFairness

InitPipeline ==
    /\ frames = <<>>
    /\ runs \in [{"r1"} -> {NewRun(d) : d \in Descriptions}]
    /\ nodeState = NoNodeState
    /\ resolver = NoResolver
    /\ tasks = <<>>
    /\ nextId = 1
    /\ lastCall = NoCall
    /\ agent = NoAgent

NextPipeline ==
    \E r \in DOMAIN runs :
        \/ NodeStart(r)
        \/ CompletionReturns(r)
        \/ CompletionRaises(r)
        \/ CompletionRetry(r)
        \/ RegisteredNode(r)

SpecPipeline == InitPipeline /\ [][NextPipeline]_vars

InitResolver ==
    /\ frames = <<>>
    /\ runs = NoRuns
    /\ nodeState = NoNodeState
    /\ resolver \in {[phase |-> "input", raw_due |-> p] : p \in Phrases \cup {None}}
    /\ tasks = <<>>
    /\ nextId = 1
    /\ lastCall = NoCall
    /\ agent = NoAgent

NextResolver == Resolve

SpecResolver == InitResolver /\ [][NextResolver]_vars

InitNodes ==
    /\ frames = <<>>
    /\ runs = NoRuns
    /\ nodeState \in {[phase |-> "ready", state |-> st, calls |-> 0, last |-> "none",
                       raised |-> "none"] :
                         st \in {NewTaskState(d) : d \in Descriptions}
                                \cup {NoneTaskState(d) : d \in Descriptions}}
    /\ resolver = NoResolver
    /\ tasks = <<>>
    /\ nextId = 1
    /\ lastCall = NoCall
    /\ agent = NoAgent

NextNodes ==
    \/ EnrichmentNodeCall
    \/ EnrichmentNodeFails
    \/ AssembleNodeCall
    \/ ConfirmationNodeCall

SpecNodes == InitNodes /\ [][NextNodes]_vars

InitStore ==
    /\ frames = <<>>
    /\ runs = NoRuns
    /\ nodeState = NoNodeState
    /\ resolver = NoResolver
    /\ tasks = <<>>
    /\ nextId = 1
    /\ lastCall = NoCall
    /\ agent = NoAgent

\* two runs of one compiled graph, in flight together
InitRuns ==
    /\ frames = <<>>
    /\ \E d \in Descriptions :
          runs = [r \in {"r1", "r2"} |->
                    IF r = "r1" THEN NewRun(<<"m", "i", "l", "k">>) ELSE NewRun(d)]
    /\ nodeState = NoNodeState
    /\ resolver = NoResolver
    /\ tasks = <<>>
    /\ nextId = 1
    /\ lastCall = NoCall
    /\ agent = NoAgent

SpecRuns == InitRuns /\ [][NextPipeline]_vars

\* two activations of the wrapper, in flight together
InitRetryPair ==
    /\ frames \in [{"c1", "c2"} -> {NewFrame(n, d) : n \in 0..MaxRetries, d \in Delays}]
    /\ runs = NoRuns
    /\ nodeState = NoNodeState
    /\ resolver = NoResolver
    /\ tasks = <<>>
    /\ nextId = 1
    /\ lastCall = NoCall
    /\ agent = NoAgent

SpecRetryPair == InitRetryPair /\ [][NextRetry]_vars

NextStore == AddTask \/ EditTask \/ DeleteTask

SpecStore == InitStore /\ [][NextStore]_vars

InitAgent ==
    /\ frames = <<>>
    /\ runs = NoRuns
    /\ nodeState = NoNodeState
    /\ resolver = NoResolver
    /\ tasks = <<>>
    /\ nextId = 1
    /\ lastCall = NoCall
    /\ agent = NewAgent

NextAgent ==
    \/ Initialize
    \/ GetToolsReturns
    \/ GetToolsRaises
    \/ RetrySleepOver
    \/ Message
    \/ InvokeReturns
    \/ InvokeRaises

SpecAgent == InitAgent /\ [][NextAgent]_vars

\* two tasks calling initialize on one fresh agent
InitAgentPair ==
    /\ frames = <<>>
    /\ runs = NoRuns
    /\ nodeState = NoNodeState
    /\ resolver = NoResolver
    /\ tasks = <<>>
    /\ nextId = 1
    /\ lastCall = NoCall
    /\ agent = NewAgentPair

NextAgentPair ==
    \E k \in Callers :
        \/ CallerInitialize(k)
        \/ CallerGetToolsReturns(k)
        \/ CallerGetToolsRaises(k)
        \/ CallerSleepOver(k)

SpecAgentPair == InitAgentPair /\ [][NextAgentPair]_vars

\* the tasks table after add_task(" Milk "), edited from then on
InitEdit ==
    /\ frames = <<>>
    /\ runs = NoRuns
    /\ nodeState = NoNodeState
    /\ resolver = NoResolver
    /\ tasks = add_task(<<>>, 1, <<" ", "M", "i", "l", "k", " ">>, None, None, 0, <<>>).tasks
    /\ nextId = 2
    /\ lastCall = NoCall
    /\ agent = NoAgent

NextEdit == EditTaskFields

SpecEdit == InitEdit /\ [][NextEdit]_vars

====
